---- MODULE Spec2Model ----
(***************************************************************************)
(* Collaboration session engine of the form-collaboration backend          *)
(* (backend/src/services/socketService.ts): rooms, field locks, field      *)
(* updates, submit / reset fan-out, disconnect cleanup and the expiry      *)
(* sweeper, as a state machine over the relational store and the socket    *)
(* rooms.  Every await of a handler is a step boundary: an action is one   *)
(* storage call together with the synchronous code that follows it up to   *)
(* the next await.                                                         *)
(***************************************************************************)
EXTENDS Integers, Sequences, FiniteSets, TLC

\* ------------------------------------------------------------------------
\* Bounds of the model
\* ------------------------------------------------------------------------
\* number of sweep-interval clock ticks the clock may advance
MaxTicks == 3
\* number of handler invocations (events received by the server) in a run
MaxOps == 3
\* number of form_responses rows that may be created
MaxResponses == 2

\* ------------------------------------------------------------------------
\* Program constants
\* ------------------------------------------------------------------------
LeaseMs == 60000
SweepIntervalMs == 30000
TextLimit == 10000
ChoiceLimit == 500

NULL == "null"

\* ------------------------------------------------------------------------
\* The relational store's static tables (rows the socket handlers only read)
\* ------------------------------------------------------------------------
\* users(id, email)
Users ==
  { [id |-> "u1", email |-> "ada@x"],
    [id |-> "u2", email |-> "bob@x"],
    [id |-> "u3", email |-> "cyd@x"] }

\* forms(id, share_code, is_active); share_code is the forms column that
\* lock-field / unlock-field look a form up by.  createForm does not write
\* this column; the rows here carry the code of the form's first group, the
\* one content of the column under which lock-field resolves a form at all
Forms ==
  { [id |-> "f1", share_code |-> "A", is_active |-> TRUE],
    [id |-> "f2", share_code |-> "C", is_active |-> FALSE] }

\* form_sharing_codes(id, share_code, form_id, group_name, is_active)
SharingCodes ==
  { [id |-> "sc1", share_code |-> "A", form_id |-> "f1", group_name |-> "g1", is_active |-> TRUE],
    [id |-> "sc2", share_code |-> "B", form_id |-> "f1", group_name |-> "g2", is_active |-> TRUE],
    [id |-> "sc3", share_code |-> "C", form_id |-> "f2", group_name |-> "g3", is_active |-> TRUE],
    [id |-> "sc4", share_code |-> "D", form_id |-> "f1", group_name |-> "g4", is_active |-> FALSE] }

\* form_fields(id, form_id, label, type)
FormFields ==
  { [id |-> "name",  form_id |-> "f1", label |-> "Name",  type |-> "TEXT"],
    [id |-> "email", form_id |-> "f1", label |-> "Email", type |-> "EMAIL"],
    [id |-> "age",   form_id |-> "f1", label |-> "Age",   type |-> "NUMBER"],
    [id |-> "note",  form_id |-> "f2", label |-> "Note",  type |-> "TEXT"] }

\* the live connections and the user each one authenticated as
Sessions == {"s1", "s2", "s3", "s4"}

\* socket.userId, set by the handshake middleware; s4 is a second
\* connection of the first user
UserOf(s) ==
  CASE s = "s1" -> "u1"
    [] s = "s2" -> "u2"
    [] s = "s3" -> "u3"
    [] s = "s4" -> "u1"

EmailOf(u) == (CHOOSE r \in Users : r.id = u).email

\* PostgREST .single(): the row when exactly one row matches, an error (no
\* data) otherwise; the result is the set holding that row, or the empty set
Single(rows) == IF Cardinality(rows) = 1 THEN rows ELSE {}

The(rows) == CHOOSE r \in rows : TRUE

\* ------------------------------------------------------------------------
\* Strings: a string is a sequence of one-character strings
\* ------------------------------------------------------------------------
Undefined == << "undefined" >>

IsSpace(c) == c = " "

IsDigit(c) == c \in {"0", "1", "2", "3", "4", "5", "6", "7", "8", "9"}

RECURSIVE TrimLeft(_)
TrimLeft(s) ==
  IF s = << >> THEN << >>
  ELSE IF IsSpace(Head(s)) THEN TrimLeft(Tail(s)) ELSE s

RECURSIVE TrimRight(_)
TrimRight(s) ==
  IF s = << >> THEN << >>
  ELSE IF IsSpace(s[Len(s)]) THEN TrimRight(SubSeq(s, 1, Len(s) - 1)) ELSE s

\* String.prototype.trim
Trim(s) == TrimRight(TrimLeft(s))

\* value ? String(value).trim() : ""
Sanitize(value) == IF value = << >> THEN << >> ELSE Trim(value)

\* [^\s@]+ over the whole of s
IsLocalPart(s) == Len(s) > 0 /\ \A i \in 1..Len(s) : ~IsSpace(s[i]) /\ s[i] # "@"

\* /^[^\s@]+@[^\s@]+\.[^\s@]+$/.test(s)
EmailRegexTest(s) ==
  \E i \in 1..Len(s) : \E j \in 1..Len(s) :
     /\ i < j
     /\ s[i] = "@"
     /\ s[j] = "."
     /\ IsLocalPart(SubSeq(s, 1, i - 1))
     /\ IsLocalPart(SubSeq(s, i + 1, j - 1))
     /\ IsLocalPart(SubSeq(s, j + 1, Len(s)))

AllDigits(s) == \A i \in 1..Len(s) : IsDigit(s[i])

\* an unsigned StrDecimalLiteral: digits, digits "." [digits], "." digits
IsUnsignedDecimal(s) ==
  \/ Len(s) > 0 /\ AllDigits(s)
  \/ \E i \in 1..Len(s) :
        /\ s[i] = "."
        /\ AllDigits(SubSeq(s, 1, i - 1))
        /\ AllDigits(SubSeq(s, i + 1, Len(s)))
        /\ Len(s) > 1

\* !isNaN(Number(s)) && isFinite(Number(s)) for strings over the model's
\* alphabet (digits, sign, ".", letters, "@", space): Number() trims, reads
\* the empty string as 0 and otherwise wants an optionally signed decimal
IsFiniteNumber(s) ==
  LET t == Trim(s) IN
    \/ t = << >>
    \/ IsUnsignedDecimal(t)
    \/ Len(t) > 1 /\ Head(t) \in {"+", "-"} /\ IsUnsignedDecimal(Tail(t))

\* the pieces of s between commas (String.prototype.split(","))
RECURSIVE SplitComma(_)
SplitComma(s) ==
  IF \A i \in 1..Len(s) : s[i] # ","
  THEN << s >>
  ELSE LET k == CHOOSE i \in 1..Len(s) : s[i] = "," /\ \A j \in 1..(i - 1) : s[j] # ","
       IN << SubSeq(s, 1, k - 1) >> \o SplitComma(SubSeq(s, k + 1, Len(s)))

\* fieldType.toUpperCase() for the type names the store holds
ToUpperCase(t) ==
  CASE t = "email" -> "EMAIL"
    [] t = "number" -> "NUMBER"
    [] t = "text" -> "TEXT"
    [] OTHER -> t

\* a validation that lets every e-mail value through
validateFieldValueNoEmail(fieldType, value) ==
  IF value = << >> \/ Trim(value) = << >> THEN TRUE
  ELSE LET t == ToUpperCase(fieldType) IN
    CASE t = "NUMBER" -> IsFiniteNumber(value)
      [] t \in {"TEXT", "TEXTAREA"} -> Len(value) <= TextLimit
      [] t \in {"DROPDOWN", "RADIO"} -> Len(value) <= ChoiceLimit
      [] t = "CHECKBOX" ->
           \A k \in 1..Len(SplitComma(value)) : Len(Trim(SplitComma(value)[k])) <= ChoiceLimit
      [] OTHER -> TRUE

\* validateFieldValue, the function declared in the connection callback (the
\* one the field-update handler's scope resolves to)
validateFieldValue(fieldType, value) ==
  IF value = << >> \/ Trim(value) = << >> THEN TRUE
  ELSE LET t == ToUpperCase(fieldType) IN
    CASE t = "EMAIL" -> EmailRegexTest(value)
      [] t = "NUMBER" -> IsFiniteNumber(value)
      [] t \in {"TEXT", "TEXTAREA"} -> Len(value) <= TextLimit
      [] t \in {"DROPDOWN", "RADIO"} -> Len(value) <= ChoiceLimit
      [] t = "CHECKBOX" ->
           \A k \in 1..Len(SplitComma(value)) : Len(Trim(SplitComma(value)[k])) <= ChoiceLimit
      [] OTHER -> TRUE

\* ------------------------------------------------------------------------
\* State
\* ------------------------------------------------------------------------
VARIABLES
  status,          \* per session: "new", "connected" or "closed"
  rooms,           \* per session: socket.rooms, the share codes it has joined
  task,            \* per session: the handler in flight and its locals
  cleanup,         \* per session: the disconnect handler's lock deletion
  field_locks,     \* table field_locks
  form_responses,  \* table form_responses
  response_fields, \* table response_fields
  field_contributions, \* table field_contributions
  now,             \* the clock (Date.now()), in milliseconds
  sweep,           \* the expiry sweeper: its position and the locks it selected
  ops,             \* number of events the server has received
  emitted,         \* the events emitted by the last step, in order
  lastUpdated,     \* per share code and field: the value of the last
                   \* field-updated that was broadcast
  submitted,       \* the ids of the responses submitForm has returned
  lockedFields     \* per session: the fields its page shows as locked

vars == << status, rooms, task, cleanup, field_locks, form_responses,
           response_fields, field_contributions, now, sweep, ops, emitted,
           lastUpdated, submitted, lockedFields >>

\* a handler's locals; out is the outcome of the session's last finished handler
Idle(outcome, code, fld) ==
  [pc |-> "idle", code |-> NULL, fld |-> NULL, val |-> << >>, exp |-> 0,
   holder |-> NULL, rid |-> 0, out |-> outcome]

Fresh == Idle("none", NULL, NULL)

\* the sessions in a room (io.sockets.adapter.rooms.get(room))
RoomMembers(code) == { s \in Sessions : code \in rooms[s] }

\* the sockets of the namespace (io.sockets.sockets): the open connections
Connected == { s \in Sessions : status[s] = "connected" }

\* io.to(room).emit: every open socket in the room
IoTo(code) == RoomMembers(code) \cap Connected

\* socket.to(room).emit: every open socket in the room except this one
SocketTo(s, code) == (RoomMembers(code) \cap Connected) \ {s}

\* socket.emit: this socket, while its connection is open
ToSelf(s) == IF status[s] = "connected" THEN {s} ELSE {}

\* one emitted event
Emit(ev, to, by, code, fld, val, who) ==
  [ev |-> ev, to |-> to, by |-> by, code |-> code, fld |-> fld, val |-> val, who |-> who]

\* .gt("expires_at", new Date().toISOString())
Live(l) == l.expires_at > now

\* .lt("expires_at", new Date().toISOString())
Expired(l) == l.expires_at < now

\* the page's listeners applied to the events of a list that reach session
\* s, in order: field-locked adds the field, field-unlocked removes it
RECURSIVE setLockedFields(_, _, _)
setLockedFields(prev, s, list) ==
  IF list = << >> THEN prev
  ELSE LET e == Head(list)
           updated == IF s \notin e.to THEN prev
                      ELSE IF e.ev = "field-locked" THEN prev \cup { e.fld }
                      ELSE IF e.ev = "field-unlocked" THEN prev \ { e.fld }
                      ELSE prev
       IN setLockedFields(updated, s, Tail(list))

\* every page's locked fields once the events of a list are delivered
Delivered(list) ==
  [s \in Sessions |-> setLockedFields(lockedFields[s], s, list)]

Init ==
  /\ status = [s \in Sessions |-> "new"]
  /\ rooms = [s \in Sessions |-> {}]
  /\ task = [s \in Sessions |-> Fresh]
  /\ cleanup = [s \in Sessions |-> "none"]
  /\ field_locks = {}
  /\ form_responses = {}
  /\ response_fields = {}
  /\ field_contributions = {}
  /\ now = 0
  /\ sweep = [pc |-> "idle", expired |-> {}]
  /\ ops = 0
  /\ emitted = << >>
  /\ lastUpdated = {}
  /\ submitted = {}
  /\ lockedFields = [s \in Sessions |-> {}]

\* the outcomes of the handshake middleware that refuse the connection
Refusals == { "No token provided", "User not found", "Invalid token" }

\* the handshake credential: absent, or a token with a signature and the
\* user id it was issued for
NoToken == [present |-> FALSE, sig |-> "", userId |-> ""]

Token(sig, userId) == [present |-> TRUE, sig |-> sig, userId |-> userId]

\* a middleware that trusts the verified token without looking up its user
AuthenticateNoLookup(token) ==
  IF ~token.present THEN "No token provided"
  ELSE IF token.sig # "ok" THEN "Invalid token"
  ELSE "ok"

\* io.use: no token, jwt.verify throws, or the users row is not found:
\* next(new Error(...)); otherwise userId and userEmail are set and next()
Authenticate(token) ==
  IF ~token.present THEN "No token provided"
  ELSE IF token.sig # "ok" THEN "Invalid token"
  ELSE IF Single({ u \in Users : u.id = token.userId }) = {} THEN "User not found"
  ELSE "ok"

\* a new event may be handled by a connected session with no handler in flight
CanStart(s) == status[s] = "connected" /\ task[s].pc = "idle" /\ ops < MaxOps

\* ------------------------------------------------------------------------
\* Connection and clock
\* ------------------------------------------------------------------------
\* io.on("connection"): the handshake middleware resolved the session's user
Connect(s) ==
  /\ status[s] = "new"
  /\ status' = [status EXCEPT ![s] = "connected"]
  /\ emitted' = << >>
  /\ UNCHANGED << rooms, task, cleanup, field_locks, form_responses,
                  response_fields, field_contributions, now, sweep, ops, lastUpdated, submitted >>
  /\ lockedFields' = Delivered(emitted')

\* a client opens a connection with a credential: the middleware refuses it
\* or the connection event fires and the handlers are registered
Handshake(s, token) ==
  /\ status[s] = "new"
  /\ status' = [status EXCEPT ![s] = IF Authenticate(token) = "ok" THEN "connected"
                                     ELSE Authenticate(token)]
  /\ emitted' = << >>
  /\ UNCHANGED << rooms, task, cleanup, field_locks, form_responses,
                  response_fields, field_contributions, now, sweep, ops, lastUpdated, submitted >>
  /\ lockedFields' = Delivered(emitted')

\* time passes, one sweep interval at a time
Tick ==
  /\ now < MaxTicks * SweepIntervalMs
  /\ now' = now + SweepIntervalMs
  /\ emitted' = << >>
  /\ UNCHANGED << status, rooms, task, cleanup, field_locks, form_responses,
                  response_fields, field_contributions, sweep, ops, lastUpdated, submitted >>
  /\ lockedFields' = Delivered(emitted')

\* ------------------------------------------------------------------------
\* lock-field
\* ------------------------------------------------------------------------
\* forms looked up by share_code among the active forms
ActiveFormByCode(code) == Single({ fm \in Forms : fm.share_code = code /\ fm.is_active })

\* forms looked up by share_code
FormByCode(code) == Single({ fm \in Forms : fm.share_code = code })

\* the handler starts: select the form; no form: error, return
LockFieldBegin(s, code, fld) ==
  /\ CanStart(s)
  /\ ops' = ops + 1
  /\ IF ActiveFormByCode(code) = {}
     THEN /\ task' = [task EXCEPT ![s] = Idle("lf_error", code, fld)]
          /\ emitted' = << Emit("error", ToSelf(s), s, code, fld, << >>, "Form not found") >>
     ELSE /\ task' = [task EXCEPT ![s] = [Fresh EXCEPT !.pc = "lf_check", !.code = code, !.fld = fld]]
          /\ emitted' = << >>
  /\ UNCHANGED << status, rooms, cleanup, field_locks, form_responses,
                  response_fields, field_contributions, now, sweep, lastUpdated, submitted >>
  /\ lockedFields' = Delivered(emitted')

\* a select that also finds a lock whose lease has run out
ExistingLockAnyAge(form_id, fld) ==
  Single({ l \in field_locks : l.form_id = form_id /\ l.field_id = fld })

\* the live lock of (form, field), as lock-field selects it
ExistingLock(form_id, fld) ==
  Single({ l \in field_locks : l.form_id = form_id /\ l.field_id = fld /\ Live(l) })

\* a check that turns the request down whenever the field has a live lock,
\* the caller's own included
LockFieldCheckAnyHolder(s) ==
  /\ task[s].pc = "lf_check"
  /\ LET form == The(ActiveFormByCode(task[s].code))
         existing == ExistingLock(form.id, task[s].fld)
     IN IF existing # {}
        THEN /\ task' = [task EXCEPT ![s] = Idle("lf_failed", task[s].code, task[s].fld)]
             /\ emitted' = << Emit("lock-failed", ToSelf(s), s, task[s].code, task[s].fld,
                                   << >>, "Another user") >>
        ELSE /\ task' = [task EXCEPT ![s].pc = "lf_upsert", ![s].exp = now + LeaseMs]
             /\ emitted' = << >>
  /\ UNCHANGED << status, rooms, cleanup, field_locks, form_responses,
                  response_fields, field_contributions, now, sweep, ops, lastUpdated, submitted >>
  /\ lockedFields' = Delivered(emitted')

\* select the existing lock; held by someone else: lock-failed, return;
\* otherwise compute the expiry and issue the upsert
LockFieldCheck(s) ==
  /\ task[s].pc = "lf_check"
  /\ LET form == The(ActiveFormByCode(task[s].code))
         existing == ExistingLock(form.id, task[s].fld)
     IN IF existing # {} /\ The(existing).user_id # UserOf(s)
        THEN /\ task' = [task EXCEPT ![s] = Idle("lf_failed", task[s].code, task[s].fld)]
             /\ emitted' = << Emit("lock-failed", ToSelf(s), s, task[s].code, task[s].fld,
                                   << >>, "Another user") >>
        ELSE /\ task' = [task EXCEPT ![s].pc = "lf_upsert", ![s].exp = now + LeaseMs]
             /\ emitted' = << >>
  /\ UNCHANGED << status, rooms, cleanup, field_locks, form_responses,
                  response_fields, field_contributions, now, sweep, ops, lastUpdated, submitted >>
  /\ lockedFields' = Delivered(emitted')

\* an insert that ignores the uniqueness of (form_id, field_id)
UpsertLockNoConflict(locks, user_id, form_id, fld, expires_at) ==
  locks \cup { [user_id |-> user_id, form_id |-> form_id, field_id |-> fld,
                sharing_code_id |-> NULL, expires_at |-> expires_at] }

\* field_locks.upsert({user_id, form_id, field_id, expires_at},
\*                    {onConflict: "form_id,field_id"})
UpsertLock(locks, user_id, form_id, fld, expires_at) ==
  IF \E l \in locks : l.form_id = form_id /\ l.field_id = fld
  THEN { IF l.form_id = form_id /\ l.field_id = fld
         THEN [l EXCEPT !.user_id = user_id, !.expires_at = expires_at]
         ELSE l : l \in locks }
  ELSE locks \cup { [user_id |-> user_id, form_id |-> form_id, field_id |-> fld,
                     sharing_code_id |-> NULL, expires_at |-> expires_at] }

\* the upsert is applied; the room is told field-locked
LockFieldUpsert(s) ==
  /\ task[s].pc = "lf_upsert"
  /\ LET form == The(ActiveFormByCode(task[s].code)) IN
       field_locks' = UpsertLock(field_locks, UserOf(s), form.id, task[s].fld, task[s].exp)
  /\ task' = [task EXCEPT ![s] = Idle("lf_locked", task[s].code, task[s].fld)]
  /\ emitted' = << Emit("field-locked", IoTo(task[s].code), s, task[s].code, task[s].fld,
                        << >>, UserOf(s)) >>
  /\ UNCHANGED << status, rooms, cleanup, form_responses,
                  response_fields, field_contributions, now, sweep, ops, lastUpdated, submitted >>
  /\ lockedFields' = Delivered(emitted')

\* ------------------------------------------------------------------------
\* unlock-field
\* ------------------------------------------------------------------------
\* the handler starts: select the form; no form: return silently
UnlockFieldBegin(s, code, fld) ==
  /\ CanStart(s)
  /\ ops' = ops + 1
  /\ IF FormByCode(code) = {}
     THEN task' = [task EXCEPT ![s] = Idle("ul_noform", code, fld)]
     ELSE task' = [task EXCEPT ![s] = [Fresh EXCEPT !.pc = "ul_delete", !.code = code, !.fld = fld]]
  /\ emitted' = << >>
  /\ UNCHANGED << status, rooms, cleanup, field_locks, form_responses,
                  response_fields, field_contributions, now, sweep, lastUpdated, submitted >>
  /\ lockedFields' = Delivered(emitted')

\* a deletion of the field's lock whoever holds it
DeleteLockOfField(locks, form_id, fld, user_id) ==
  { l \in locks : ~(l.form_id = form_id /\ l.field_id = fld) }

\* field_locks.delete().eq("form_id", ...).eq("field_id", ...).eq("user_id", ...)
DeleteLockOfUser(locks, form_id, fld, user_id) ==
  { l \in locks : ~(l.form_id = form_id /\ l.field_id = fld /\ l.user_id = user_id) }

\* delete the caller's lock on (form, field); the room is told field-unlocked
UnlockFieldDelete(s) ==
  /\ task[s].pc = "ul_delete"
  /\ LET form == The(FormByCode(task[s].code)) IN
       field_locks' = DeleteLockOfUser(field_locks, form.id, task[s].fld, UserOf(s))
  /\ task' = [task EXCEPT ![s] = Idle("ul_done", task[s].code, task[s].fld)]
  /\ emitted' = << Emit("field-unlocked", IoTo(task[s].code), s, task[s].code, task[s].fld,
                        << >>, NULL) >>
  /\ UNCHANGED << status, rooms, cleanup, form_responses,
                  response_fields, field_contributions, now, sweep, ops, lastUpdated, submitted >>
  /\ lockedFields' = Delivered(emitted')

\* ------------------------------------------------------------------------
\* field-update
\* ------------------------------------------------------------------------
\* form_sharing_codes looked up by share_code among the active codes
ActiveSharingCode(code) ==
  Single({ sc \in SharingCodes : sc.share_code = code /\ sc.is_active })

\* form_sharing_codes looked up by share_code
SharingCodeByCode(code) == Single({ sc \in SharingCodes : sc.share_code = code })

\* the forms row joined to a sharing code
FormOf(sc) == The({ fm \in Forms : fm.id = sc.form_id })

\* form_fields looked up by id alone
FieldOfAnyForm(fld, form_id) ==
  Single({ ff \in FormFields : ff.id = fld })

\* form_fields looked up by id within a form
FieldOfForm(fld, form_id) ==
  Single({ ff \in FormFields : ff.id = fld /\ ff.form_id = form_id })

\* why the handler stops before the lock check, or "ok"
FieldUpdatePrecheck(code, fld, value) ==
  IF code = "" \/ fld = "" \/ value = Undefined THEN "Invalid field update data"
  ELSE IF ActiveSharingCode(code) = {} THEN "Share code not found or inactive"
  ELSE IF ~FormOf(The(ActiveSharingCode(code))).is_active THEN "Form is not active"
  ELSE IF FieldOfForm(fld, The(ActiveSharingCode(code)).form_id) = {}
    THEN "Field not found in this form"
  ELSE IF /\ Sanitize(value) # << >>
          /\ ~validateFieldValue(The(FieldOfForm(fld, The(ActiveSharingCode(code)).form_id)).type,
                                 Sanitize(value))
    THEN "Invalid value"
  ELSE "ok"

\* the handler starts: input check, sanitize, sharing code, form, field and
\* type validation (reads of rows no handler writes); any failure: error
FieldUpdateBegin(s, code, fld, value) ==
  /\ CanStart(s)
  /\ ops' = ops + 1
  /\ LET why == FieldUpdatePrecheck(code, fld, value) IN
       IF why # "ok"
       THEN /\ task' = [task EXCEPT ![s] = Idle("fu_error", code, fld)]
            /\ emitted' = << Emit("error", ToSelf(s), s, code, fld, << >>, why) >>
       ELSE /\ task' = [task EXCEPT ![s] = [Fresh EXCEPT !.pc = "fu_lock", !.code = code,
                                                         !.fld = fld, !.val = Sanitize(value)]]
            /\ emitted' = << >>
  /\ UNCHANGED << status, rooms, cleanup, field_locks, form_responses,
                  response_fields, field_contributions, now, sweep, lastUpdated, submitted >>
  /\ lockedFields' = Delivered(emitted')

\* a select that finds the field's live lock whatever group it belongs to
LockOfAnyGroup(sc_id, fld) ==
  Single({ l \in field_locks : l.field_id = fld /\ Live(l) })

\* the live lock of (sharing code, field), as field-update selects it
LockOfGroup(sc_id, fld) ==
  Single({ l \in field_locks : l.sharing_code_id = sc_id /\ l.field_id = fld /\ Live(l) })

\* the record of the last broadcast of each field once s's value has gone out
NoteUpdate(s) ==
  { r \in lastUpdated : ~(r.code = task[s].code /\ r.fld = task[s].fld) }
    \cup { [code |-> task[s].code, fld |-> task[s].fld, val |-> task[s].val] }

\* a broadcast that reaches the whole room, the sender included
BroadcastUpdateToAll(s) ==
  Emit("field-updated", IoTo(task[s].code), s, task[s].code, task[s].fld,
       task[s].val, EmailOf(UserOf(s)))

\* socket.to(shareCode).emit("field-updated", ...)
BroadcastUpdate(s) ==
  Emit("field-updated", SocketTo(s, task[s].code), s, task[s].code, task[s].fld,
       task[s].val, EmailOf(UserOf(s)))

\* select the lock of (sharing code, field) and, when there is one, its
\* holder's e-mail; held by someone else: error, return; a non-empty value
\* goes on to the contribution upsert, an empty one is broadcast at once
FieldUpdateLock(s) ==
  /\ task[s].pc = "fu_lock"
  /\ LET sc == The(ActiveSharingCode(task[s].code))
         lock == LockOfGroup(sc.id, task[s].fld)
         canUpdate == lock = {} \/ The(lock).user_id = UserOf(s)
         holder == IF lock = {} THEN NULL ELSE The(lock).user_id
     IN IF ~canUpdate
        THEN /\ task' = [task EXCEPT ![s] = Idle("fu_locked", task[s].code, task[s].fld)]
             /\ emitted' = << Emit("error", ToSelf(s), s, task[s].code, task[s].fld, << >>,
                                   "Field is locked") >>
             /\ lastUpdated' = lastUpdated
        ELSE IF task[s].val # << >>
        THEN /\ task' = [task EXCEPT ![s].pc = "fu_contrib", ![s].holder = holder]
             /\ emitted' = << >>
             /\ lastUpdated' = lastUpdated
        ELSE /\ task' = [task EXCEPT ![s].pc = "fu_resp", ![s].holder = holder]
             /\ emitted' = << BroadcastUpdate(s) >>
             /\ lastUpdated' = NoteUpdate(s)
  /\ UNCHANGED << status, rooms, cleanup, field_locks, form_responses,
                  response_fields, field_contributions, now, sweep, ops, submitted >>
  /\ lockedFields' = Delivered(emitted')

\* field_contributions.upsert(..., {onConflict:
\*   "form_id,sharing_code_id,field_id,user_id"})
UpsertContribution(rows, form_id, sc_id, fld, user_id, value, at) ==
  { r \in rows : ~(r.form_id = form_id /\ r.sharing_code_id = sc_id
                     /\ r.field_id = fld /\ r.user_id = user_id) }
    \cup { [form_id |-> form_id, sharing_code_id |-> sc_id, field_id |-> fld,
            user_id |-> user_id, value |-> value, updated_at |-> at] }

\* the contribution is recorded, then the change is broadcast to the others
FieldUpdateContribution(s) ==
  /\ task[s].pc = "fu_contrib"
  /\ LET sc == The(ActiveSharingCode(task[s].code)) IN
       field_contributions' = UpsertContribution(field_contributions, sc.form_id, sc.id,
                                                 task[s].fld, UserOf(s), task[s].val, now)
  /\ task' = [task EXCEPT ![s].pc = "fu_resp"]
  /\ emitted' = << BroadcastUpdate(s) >>
  /\ lastUpdated' = NoteUpdate(s)
  /\ UNCHANGED << status, rooms, cleanup, field_locks, form_responses,
                  response_fields, now, sweep, ops, submitted >>
  /\ lockedFields' = Delivered(emitted')

\* the form_responses rows of (form, sharing code)
ResponsesOf(form_id, sc_id) ==
  { r \in form_responses : r.form_id = form_id /\ r.sharing_code_id = sc_id }

\* .order("created_at", {ascending: false}).limit(1).single(): ids are
\* handed out in creation order
Latest(rows) == { r \in rows : \A q \in rows : q.id <= r.id }

\* getOrCreateCollaborativeResponse, the select: the group's most recent
\* response, or none and an insert is issued
FieldUpdateResponse(s) ==
  /\ task[s].pc = "fu_resp"
  /\ LET sc == The(ActiveSharingCode(task[s].code))
         response == Latest(ResponsesOf(sc.form_id, sc.id))
     IN IF response = {}
        THEN task' = [task EXCEPT ![s].pc = "fu_create"]
        ELSE task' = [task EXCEPT ![s].pc = "fu_persist", ![s].rid = The(response).id]
  /\ emitted' = << >>
  /\ UNCHANGED << status, rooms, cleanup, field_locks, form_responses,
                  response_fields, field_contributions, now, sweep, ops, lastUpdated, submitted >>
  /\ lockedFields' = Delivered(emitted')

\* getOrCreateCollaborativeResponse, the insert of a new form_responses row
FieldUpdateCreate(s) ==
  /\ task[s].pc = "fu_create"
  /\ Cardinality(form_responses) < MaxResponses
  /\ LET sc == The(ActiveSharingCode(task[s].code))
         id == Cardinality(form_responses) + 1
     IN /\ form_responses' = form_responses \cup
              { [id |-> id, form_id |-> sc.form_id, sharing_code_id |-> sc.id,
                 user_id |-> UserOf(s)] }
        /\ task' = [task EXCEPT ![s].pc = "fu_persist", ![s].rid = id]
  /\ emitted' = << >>
  /\ UNCHANGED << status, rooms, cleanup, field_locks,
                  response_fields, field_contributions, now, sweep, ops, lastUpdated, submitted >>
  /\ lockedFields' = Delivered(emitted')

\* response_fields.upsert(..., {onConflict: "response_id,field_id"})
UpsertResponseField(rows, rid, fld, value) ==
  { r \in rows : ~(r.response_id = rid /\ r.field_id = fld) }
    \cup { [response_id |-> rid, field_id |-> fld, value |-> value] }

\* field_locks.update({expires_at}) where sharing_code_id, field_id, user_id
ExtendLock(locks, sc_id, fld, user_id, expires_at) ==
  { IF l.sharing_code_id = sc_id /\ l.field_id = fld /\ l.user_id = user_id
    THEN [l EXCEPT !.expires_at = expires_at] ELSE l : l \in locks }

\* a last stage that drops the value of a socket that has closed
FieldUpdatePersistIfOpen(s) ==
  /\ task[s].pc = "fu_persist"
  /\ response_fields' = IF status[s] = "connected"
                        THEN UpsertResponseField(response_fields, task[s].rid, task[s].fld,
                                                 task[s].val)
                        ELSE response_fields
  /\ task' = [task EXCEPT ![s] = Idle("fu_done", task[s].code, task[s].fld)]
  /\ emitted' = << >>
  /\ UNCHANGED << status, rooms, cleanup, field_locks, form_responses,
                  field_contributions, now, sweep, ops, lastUpdated, submitted >>
  /\ lockedFields' = Delivered(emitted')

\* the value is written into the response; a lock the caller was found to
\* hold is extended
FieldUpdatePersist(s) ==
  /\ task[s].pc = "fu_persist"
  /\ response_fields' = UpsertResponseField(response_fields, task[s].rid, task[s].fld,
                                            task[s].val)
  /\ LET sc == The(ActiveSharingCode(task[s].code)) IN
       IF task[s].holder = UserOf(s)
       THEN field_locks' = ExtendLock(field_locks, sc.id, task[s].fld, UserOf(s), now + LeaseMs)
       ELSE field_locks' = field_locks
  /\ task' = [task EXCEPT ![s] = Idle("fu_done", task[s].code, task[s].fld)]
  /\ emitted' = << >>
  /\ UNCHANGED << status, rooms, cleanup, form_responses,
                  field_contributions, now, sweep, ops, lastUpdated, submitted >>
  /\ lockedFields' = Delivered(emitted')

\* the response_fields upsert comes back with an error: it is logged, the
\* value is not written; a lock the caller was found to hold is extended
FieldUpdatePersistFails(s) ==
  /\ task[s].pc = "fu_persist"
  /\ LET sc == The(ActiveSharingCode(task[s].code)) IN
       IF task[s].holder = UserOf(s)
       THEN field_locks' = ExtendLock(field_locks, sc.id, task[s].fld, UserOf(s), now + LeaseMs)
       ELSE field_locks' = field_locks
  /\ task' = [task EXCEPT ![s] = Idle("fu_unsaved", task[s].code, task[s].fld)]
  /\ emitted' = << >>
  /\ UNCHANGED << status, rooms, cleanup, form_responses, response_fields,
                  field_contributions, now, sweep, ops, lastUpdated, submitted >>
  /\ lockedFields' = Delivered(emitted')

\* ------------------------------------------------------------------------
\* join-form
\* ------------------------------------------------------------------------
\* getActiveUsersInRoom: the e-mail of every open socket of the room, one
\* entry per socket (the number of entries of each e-mail)
getActiveUsersInRoom(members) ==
  [ u \in { r.id : r \in Users } |->
      Cardinality({ s \in members \cap Connected : UserOf(s) = u }) ]

\* the handler starts: the sharing code is selected
JoinFormBegin(s, code) ==
  /\ CanStart(s)
  /\ ops' = ops + 1
  /\ task' = [task EXCEPT ![s] = [Fresh EXCEPT !.pc = "jf_room", !.code = code]]
  /\ emitted' = << >>
  /\ UNCHANGED << status, rooms, cleanup, field_locks, form_responses,
                  response_fields, field_contributions, now, sweep, lastUpdated, submitted >>
  /\ lockedFields' = Delivered(emitted')

\* a test that accepts an active code whatever the state of its form
JoinableAnyForm(code) == ActiveSharingCode(code) # {}

\* !(error || !sharingCodeData || !sharingCodeData.forms.is_active)
Joinable(code) ==
  ActiveSharingCode(code) # {} /\ FormOf(The(ActiveSharingCode(code))).is_active

\* no active code of an active form: error, return; otherwise the socket
\* joins the room, the others get user-joined, the room active-users, the
\* joiner group-info
JoinFormRoom(s) ==
  /\ task[s].pc = "jf_room"
  /\ LET code == task[s].code
     IN IF ~Joinable(code)
        THEN /\ rooms' = rooms
             /\ task' = [task EXCEPT ![s] = Idle("jf_error", code, NULL)]
             /\ emitted' = << Emit("error", ToSelf(s), s, code, NULL, << >>,
                                   "Share code not found or form inactive") >>
        ELSE /\ rooms' = [rooms EXCEPT ![s] = @ \cup {code}]
             /\ task' = [task EXCEPT ![s].pc = "jf_locks"]
             /\ emitted' =
                  LET members == (RoomMembers(code) \cup {s}) \cap Connected IN
                  << Emit("user-joined", members \ {s}, s, code, NULL, << >>, UserOf(s)),
                     Emit("active-users", members, s, code, NULL,
                          getActiveUsersInRoom(members), NULL),
                     Emit("group-info", ToSelf(s), s, code, NULL, << >>, NULL) >>
  /\ UNCHANGED << status, cleanup, field_locks, form_responses,
                  response_fields, field_contributions, now, sweep, ops, lastUpdated, submitted >>
  /\ lockedFields' = Delivered(emitted')

\* the group's live locks are sent to the joiner when there are any
JoinFormLocks(s) ==
  /\ task[s].pc = "jf_locks"
  /\ LET sc == The(ActiveSharingCode(task[s].code))
         existingLocks == { l \in field_locks : l.sharing_code_id = sc.id /\ Live(l) }
     IN emitted' = IF existingLocks # {}
                   THEN << Emit("current-locks", ToSelf(s), s, task[s].code, NULL,
                                { << l.field_id, l.user_id >> : l \in existingLocks }, NULL) >>
                   ELSE << >>
  /\ task' = [task EXCEPT ![s].pc = "jf_resp"]
  /\ UNCHANGED << status, rooms, cleanup, field_locks, form_responses,
                  response_fields, field_contributions, now, sweep, ops, lastUpdated, submitted >>
  /\ lockedFields' = Delivered(emitted')

\* the field values of a response, as field_id / value pairs
FieldsOfResponse(rid) ==
  { << r.field_id, r.value >> : r \in { q \in response_fields : q.response_id = rid } }

\* the group's most recent response is sent to the joiner when there is one
JoinFormResponse(s) ==
  /\ task[s].pc = "jf_resp"
  /\ LET sc == The(ActiveSharingCode(task[s].code))
         response == Latest({ r \in form_responses : r.sharing_code_id = sc.id })
     IN emitted' = IF response # {}
                   THEN << Emit("form-data-sync", ToSelf(s), s, task[s].code, NULL,
                                FieldsOfResponse(The(response).id), NULL) >>
                   ELSE << >>
  /\ task' = [task EXCEPT ![s] = Idle("jf_done", task[s].code, NULL)]
  /\ UNCHANGED << status, rooms, cleanup, field_locks, form_responses,
                  response_fields, field_contributions, now, sweep, ops, lastUpdated, submitted >>
  /\ lockedFields' = Delivered(emitted')

\* ------------------------------------------------------------------------
\* form-submit and form-reset
\* ------------------------------------------------------------------------
\* the handler starts: the sharing code is selected; data is the payload's
\* submittedBy, responseId and formData
FormSubmitBegin(s, code, data) ==
  /\ CanStart(s)
  /\ ops' = ops + 1
  /\ task' = [task EXCEPT ![s] = [Fresh EXCEPT !.pc = "fs_emit", !.code = code, !.val = data]]
  /\ emitted' = << >>
  /\ UNCHANGED << status, rooms, cleanup, field_locks, form_responses,
                  response_fields, field_contributions, now, sweep, lastUpdated, submitted >>
  /\ lockedFields' = Delivered(emitted')

\* a fan-out that leaves the submitter out
BroadcastSubmitToOthers(s) ==
  << Emit("form-submitted-all", SocketTo(s, task[s].code), s, task[s].code, NULL, task[s].val,
          task[s].val.submittedBy) >>

\* io.to(shareCode).emit("form-submitted-all", ...)
BroadcastSubmit(s) ==
  << Emit("form-submitted-all", IoTo(task[s].code), s, task[s].code, NULL, task[s].val,
          task[s].val.submittedBy) >>

\* no such sharing code: error, return; otherwise the whole room gets
\* form-submitted-all with the payload as received
FormSubmitEmit(s) ==
  /\ task[s].pc = "fs_emit"
  /\ IF SharingCodeByCode(task[s].code) = {}
     THEN /\ task' = [task EXCEPT ![s] = Idle("fs_error", task[s].code, NULL)]
          /\ emitted' = << Emit("error", ToSelf(s), s, task[s].code, NULL, << >>,
                                "Share code not found") >>
     ELSE /\ task' = [task EXCEPT ![s] = Idle("fs_done", task[s].code, NULL)]
          /\ emitted' = BroadcastSubmit(s)
  /\ UNCHANGED << status, rooms, cleanup, field_locks, form_responses,
                  response_fields, field_contributions, now, sweep, ops, lastUpdated, submitted >>
  /\ lockedFields' = Delivered(emitted')

\* submitForm (HTTP) starts for the client of session s: the active sharing
\* code is selected; none: 404
SubmitFormBegin(s, code, formData) ==
  /\ CanStart(s)
  /\ ops' = ops + 1
  /\ IF ActiveSharingCode(code) = {}
     THEN task' = [task EXCEPT ![s] = Idle("sf_notfound", code, NULL)]
     ELSE task' = [task EXCEPT ![s] = [Fresh EXCEPT !.pc = "sf_insert", !.code = code,
                                                    !.val = formData]]
  /\ emitted' = << >>
  /\ UNCHANGED << status, rooms, cleanup, field_locks, form_responses,
                  response_fields, field_contributions, now, sweep, lastUpdated, submitted >>
  /\ lockedFields' = Delivered(emitted')

\* submitForm: a new form_responses row is inserted for the sharing code
SubmitFormInsert(s) ==
  /\ task[s].pc = "sf_insert"
  /\ Cardinality(form_responses) < MaxResponses
  /\ LET sc == The(ActiveSharingCode(task[s].code))
         id == Cardinality(form_responses) + 1
     IN /\ form_responses' = form_responses \cup
              { [id |-> id, form_id |-> sc.form_id, sharing_code_id |-> sc.id,
                 user_id |-> UserOf(s)] }
        /\ task' = [task EXCEPT ![s].pc = "sf_fields", ![s].rid = id]
  /\ emitted' = << >>
  /\ UNCHANGED << status, rooms, cleanup, field_locks, response_fields,
                  field_contributions, now, sweep, ops, lastUpdated, submitted >>
  /\ lockedFields' = Delivered(emitted')

\* the entries of formData whose trimmed value is not empty, trimmed, as
\* response_fields rows of response rid
SubmittedFields(rid, formData) ==
  { [response_id |-> rid, field_id |-> e[1], value |-> Trim(e[2])] :
      e \in { d \in formData : Trim(d[2]) # << >> } }

\* submitForm: the fields are inserted and the response id is returned
SubmitFormFields(s) ==
  /\ task[s].pc = "sf_fields"
  /\ response_fields' = response_fields \cup SubmittedFields(task[s].rid, task[s].val)
  /\ submitted' = submitted \cup { task[s].rid }
  /\ task' = [task EXCEPT ![s] = Idle("sf_done", task[s].code, NULL)]
  /\ emitted' = << >>
  /\ UNCHANGED << status, rooms, cleanup, field_locks, form_responses,
                  field_contributions, now, sweep, ops, lastUpdated >>
  /\ lockedFields' = Delivered(emitted')

\* one form-reset listener: io.to(shareCode).emit("form-reset-all", ...)
ResetListener(s, code, resetBy) ==
  << Emit("form-reset-all", IoTo(code), s, code, NULL, << >>, resetBy) >>

\* the listeners registered for form-reset, run in registration order
ResetListeners(s, code, resetBy) ==
  ResetListener(s, code, resetBy) \o ResetListener(s, code, resetBy)

\* form-reset: synchronous, every registered listener runs
FormReset(s, code, resetBy) ==
  /\ CanStart(s)
  /\ ops' = ops + 1
  /\ task' = [task EXCEPT ![s] = Idle("fr_done", code, NULL)]
  /\ emitted' = ResetListeners(s, code, resetBy)
  /\ UNCHANGED << status, rooms, cleanup, field_locks, form_responses,
                  response_fields, field_contributions, now, sweep, lastUpdated, submitted >>
  /\ lockedFields' = Delivered(emitted')

\* ------------------------------------------------------------------------
\* disconnect
\* ------------------------------------------------------------------------
\* the socket has left its rooms when the disconnect listener runs, so the
\* listener's loop over socket.rooms emits nothing; the deletion of the
\* user's locks is issued
Disconnect(s) ==
  /\ status[s] = "connected"
  /\ status' = [status EXCEPT ![s] = "closed"]
  /\ rooms' = [rooms EXCEPT ![s] = {}]
  /\ cleanup' = [cleanup EXCEPT ![s] = "pending"]
  /\ emitted' = << >>
  /\ UNCHANGED << task, field_locks, form_responses,
                  response_fields, field_contributions, now, sweep, ops, lastUpdated, submitted >>
  /\ lockedFields' = Delivered(emitted')

\* a deletion that spares the user's locks whose lease has run out
DeleteLiveLocksOfUser(locks, user_id) ==
  { l \in locks : ~(l.user_id = user_id /\ Live(l)) }

\* field_locks.delete().eq("user_id", socket.userId)
DeleteLocksOfUser(locks, user_id) == { l \in locks : l.user_id # user_id }

\* the deletion of the user's locks is applied
DisconnectCleanup(s) ==
  /\ cleanup[s] = "pending"
  /\ cleanup' = [cleanup EXCEPT ![s] = "done"]
  /\ field_locks' = DeleteLocksOfUser(field_locks, UserOf(s))
  /\ emitted' = << >>
  /\ UNCHANGED << status, rooms, task, form_responses,
                  response_fields, field_contributions, now, sweep, ops, lastUpdated, submitted >>
  /\ lockedFields' = Delivered(emitted')

\* ------------------------------------------------------------------------
\* cleanupExpiredLocks (run by setInterval)
\* ------------------------------------------------------------------------
\* the elements of a finite set in some order
RECURSIVE SetToSeq(_)
SetToSeq(S) ==
  IF S = {} THEN << >>
  ELSE LET x == CHOOSE y \in S : TRUE IN << x >> \o SetToSeq(S \ {x})

\* io.to(shareCode).emit("field-unlocked", ...) for each lock of the list
RECURSIVE UnlockEvents(_)
UnlockEvents(list) ==
  IF list = << >> THEN << >>
  ELSE LET l == Head(list)
           shareCode == (CHOOSE sc \in SharingCodes : sc.id = l.sharing_code_id).share_code
       IN << Emit("field-unlocked", IoTo(shareCode), NULL, shareCode, l.field_id, << >>, NULL) >>
            \o UnlockEvents(Tail(list))

\* the sweep starts: the expired locks are selected; none: done
SweepSelect ==
  /\ sweep.pc = "idle"
  /\ LET expiredLocks == { l \in field_locks : Expired(l) } IN
       IF expiredLocks = {}
       THEN sweep' = sweep
       ELSE sweep' = [pc |-> "codes",
                      expired |-> { [field_id |-> l.field_id,
                                     sharing_code_id |-> l.sharing_code_id] : l \in expiredLocks }]
  /\ emitted' = << >>
  /\ UNCHANGED << status, rooms, task, cleanup, field_locks, form_responses,
                  response_fields, field_contributions, now, ops, lastUpdated, submitted >>
  /\ lockedFields' = Delivered(emitted')

\* the selected locks whose sharing code is found in form_sharing_codes:
\* the ones the sweep announces
SweepAnnounced ==
  { l \in sweep.expired : \E sc \in SharingCodes : sc.id = l.sharing_code_id }

\* the share codes of the selected locks are looked up and each lock whose
\* sharing code is found is announced to its room; the deletion is issued
SweepNotify ==
  /\ sweep.pc = "codes"
  /\ emitted' = UnlockEvents(SetToSeq(SweepAnnounced))
  /\ sweep' = [sweep EXCEPT !.pc = "delete"]
  /\ UNCHANGED << status, rooms, task, cleanup, field_locks, form_responses,
                  response_fields, field_contributions, now, ops, lastUpdated, submitted >>
  /\ lockedFields' = Delivered(emitted')

\* every lock that is expired now is deleted
SweepDelete ==
  /\ sweep.pc = "delete"
  /\ field_locks' = { l \in field_locks : ~Expired(l) }
  /\ sweep' = [pc |-> "idle", expired |-> {}]
  /\ emitted' = << >>
  /\ UNCHANGED << status, rooms, task, cleanup, form_responses,
                  response_fields, field_contributions, now, ops, lastUpdated, submitted >>
  /\ lockedFields' = Delivered(emitted')

\* ------------------------------------------------------------------------
\* Inputs and specifications
\* ------------------------------------------------------------------------
Ada == << "A", "d", "a" >>

PaddedBob == << " ", "B", "o", "b", " " >>

GoodEmail == << "a", "@", "b", ".", "c" >>

BadEmail == << "n", "o", "t", "-", "a", "n", "-", "e", "m", "a", "i", "l" >>

Blank == << " " >>

Submission(by, rid, value) ==
  [submittedBy |-> by, responseId |-> rid, formData |-> { << "name", value >> }]

\* the lock protocol on one field of the first group: lock-field,
\* unlock-field, field-update, disconnect, the clock and the sweeper
NextLock ==
  \/ \E s \in {"s1", "s2"} : Connect(s)
  \/ Tick
  \/ \E s \in Sessions : LockFieldBegin(s, "A", "name")
  \/ \E s \in Sessions : LockFieldCheck(s)
  \/ \E s \in Sessions : LockFieldUpsert(s)
  \/ \E s \in Sessions : UnlockFieldBegin(s, "A", "name")
  \/ \E s \in Sessions : UnlockFieldDelete(s)
  \/ \E s \in Sessions : FieldUpdateBegin(s, "A", "name", Ada)
  \/ \E s \in Sessions : FieldUpdateLock(s)
  \/ \E s \in Sessions : FieldUpdateContribution(s)
  \/ \E s \in Sessions : FieldUpdateResponse(s)
  \/ \E s \in Sessions : FieldUpdateCreate(s)
  \/ \E s \in Sessions : FieldUpdatePersist(s)
  \/ \E s \in Sessions : Disconnect(s)
  \/ \E s \in Sessions : DisconnectCleanup(s)
  \/ SweepSelect
  \/ SweepNotify
  \/ SweepDelete

SpecLock == Init /\ [][NextLock]_vars

\* no handler in flight on any session
AllIdle == \A s \in Sessions : task[s].pc = "idle"

\* the same protocol when events arrive one after the other: a handler
\* starts only when the previous one has finished
NextSerial ==
  \/ \E s \in {"s1", "s2", "s3"} : Connect(s)
  \/ Tick
  \/ \E s \in Sessions : AllIdle /\ LockFieldBegin(s, "A", "name")
  \/ \E s \in Sessions : LockFieldCheck(s)
  \/ \E s \in Sessions : LockFieldUpsert(s)
  \/ \E s \in Sessions : AllIdle /\ UnlockFieldBegin(s, "A", "name")
  \/ \E s \in Sessions : UnlockFieldDelete(s)
  \/ \E s \in Sessions : AllIdle /\ FieldUpdateBegin(s, "A", "name", Ada)
  \/ \E s \in Sessions : FieldUpdateLock(s)
  \/ \E s \in Sessions : FieldUpdateContribution(s)
  \/ \E s \in Sessions : FieldUpdateResponse(s)
  \/ \E s \in Sessions : FieldUpdateCreate(s)
  \/ \E s \in Sessions : FieldUpdatePersist(s)

SpecSerial == Init /\ [][NextSerial]_vars

\* N concurrent acquire attempts: every session sends one lock-field for the
\* same unlocked field and the handlers interleave freely
NextRace ==
  \/ \E s \in {"s1", "s2", "s3"} : Connect(s)
  \/ \E s \in Sessions : task[s].out = "none" /\ LockFieldBegin(s, "A", "name")
  \/ \E s \in Sessions : LockFieldCheck(s)
  \/ \E s \in Sessions : LockFieldUpsert(s)

SpecRace == Init /\ [][NextRace]_vars

\* field updates of a room: sessions join the first group, send a padded
\* value or a blank one to a text field, and leave
NextUpdate ==
  \/ \E s \in {"s1", "s2", "s3"} : Connect(s)
  \/ \E s \in Sessions : task[s].out = "none" /\ JoinFormBegin(s, "A")
  \/ \E s \in Sessions : JoinFormRoom(s)
  \/ \E s \in Sessions : JoinFormLocks(s)
  \/ \E s \in Sessions : JoinFormResponse(s)
  \/ \E s \in {"s1", "s2"} : \E value \in {PaddedBob, Blank} :
       FieldUpdateBegin(s, "A", "name", value)
  \/ \E s \in Sessions : FieldUpdateLock(s)
  \/ \E s \in Sessions : FieldUpdateContribution(s)
  \/ \E s \in Sessions : FieldUpdateResponse(s)
  \/ \E s \in Sessions : FieldUpdateCreate(s)
  \/ \E s \in Sessions : FieldUpdatePersist(s)
  \/ \E s \in Sessions : Disconnect(s)
  \/ \E s \in Sessions : DisconnectCleanup(s)

SpecUpdate == Init /\ [][NextUpdate]_vars

\* the field / value pairs sent as field-update when validation is exercised
ValidationInputs ==
  { << "name", PaddedBob >>, << "name", BadEmail >>,
    << "email", GoodEmail >>, << "email", BadEmail >>, << "email", PaddedBob >>,
    << "email", Blank >>, << "email", << "a", "@", "b" >> >>,
    << "age", << "4", "2" >> >>, << "age", << "-", "1", ".", "5" >> >>,
    << "age", Ada >>, << "age", << "1", ".", "2", ".", "3" >> >> }

\* field updates of every kind of value to a text, an e-mail and a number
\* field of the first group, while a lock is taken and released
NextValidate ==
  \/ \E s \in {"s1", "s2"} : Connect(s)
  \/ \E s \in Sessions : \E in \in ValidationInputs : FieldUpdateBegin(s, "A", in[1], in[2])
  \/ \E s \in Sessions : FieldUpdateLock(s)
  \/ \E s \in Sessions : FieldUpdateContribution(s)
  \/ \E s \in Sessions : FieldUpdateResponse(s)
  \/ \E s \in Sessions : FieldUpdateCreate(s)
  \/ \E s \in Sessions : FieldUpdatePersist(s)
  \/ \E s \in Sessions : LockFieldBegin(s, "A", "email")
  \/ \E s \in Sessions : LockFieldCheck(s)
  \/ \E s \in Sessions : LockFieldUpsert(s)

SpecValidate == Init /\ [][NextValidate]_vars

\* submit and reset of a room: sessions join the first group, submit or
\* reset it (or a share code that does not exist), and leave
NextBarrier ==
  \/ \E s \in {"s1", "s2", "s3"} : Connect(s)
  \/ \E s \in Sessions : task[s].out = "none" /\ JoinFormBegin(s, "A")
  \/ \E s \in Sessions : JoinFormRoom(s)
  \/ \E s \in Sessions : JoinFormLocks(s)
  \/ \E s \in Sessions : JoinFormResponse(s)
  \/ \E s \in Sessions : \E code \in {"A", "Z"} : \E rid \in {"r1", "r2"} :
       FormSubmitBegin(s, code, Submission(EmailOf(UserOf(s)), rid, Ada))
  \/ \E s \in Sessions : FormSubmitEmit(s)
  \/ \E s \in Sessions : FormReset(s, "A", EmailOf(UserOf(s)))
  \/ \E s \in Sessions : Disconnect(s)
  \/ \E s \in Sessions : DisconnectCleanup(s)

SpecBarrier == Init /\ [][NextBarrier]_vars

\* locks taken again and again: sessions send lock-field for two fields of
\* the first group while time passes, and nothing releases a lock
NextRelock ==
  \/ \E s \in {"s1", "s2"} : Connect(s)
  \/ Tick
  \/ \E s \in Sessions : \E fld \in {"name", "email"} : LockFieldBegin(s, "A", fld)
  \/ \E s \in Sessions : LockFieldCheck(s)
  \/ \E s \in Sessions : LockFieldUpsert(s)

SpecRelock == Init /\ [][NextRelock]_vars

\* joining: sessions send join-form for the first group, for a group of an
\* inactive form, for an inactive code and for a code nobody issued, and leave
NextJoin ==
  \/ \E s \in {"s1", "s2", "s3"} : Connect(s)
  \/ \E s \in Sessions : \E code \in {"A", "C", "D", "Z"} : JoinFormBegin(s, code)
  \/ \E s \in Sessions : JoinFormRoom(s)
  \/ \E s \in Sessions : JoinFormLocks(s)
  \/ \E s \in Sessions : JoinFormResponse(s)
  \/ \E s \in Sessions : Disconnect(s)
  \/ \E s \in Sessions : DisconnectCleanup(s)

SpecJoin == Init /\ [][NextJoin]_vars

\* field updates over a storage that can fail: sessions join the first
\* group and update a text field, and the write of the value into the draft
\* either succeeds or comes back with an error
NextStorage ==
  \/ \E s \in {"s1", "s2"} : Connect(s)
  \/ \E s \in Sessions : task[s].out = "none" /\ JoinFormBegin(s, "A")
  \/ \E s \in Sessions : JoinFormRoom(s)
  \/ \E s \in Sessions : JoinFormLocks(s)
  \/ \E s \in Sessions : JoinFormResponse(s)
  \/ \E s \in Sessions : \E value \in {PaddedBob, Blank} :
       FieldUpdateBegin(s, "A", "name", value)
  \/ \E s \in Sessions : FieldUpdateLock(s)
  \/ \E s \in Sessions : FieldUpdateContribution(s)
  \/ \E s \in Sessions : FieldUpdateResponse(s)
  \/ \E s \in Sessions : FieldUpdateCreate(s)
  \/ \E s \in Sessions : FieldUpdatePersist(s)
  \/ \E s \in Sessions : FieldUpdatePersistFails(s)

SpecStorage == Init /\ [][NextStorage]_vars

\* s1's field-update has been received by the server
FirstReceived == task["s1"].pc # "idle" \/ task["s1"].out # "none"

\* two updates of one field received one after the other: s3 listens in the
\* room, s1 sends a value, and s2 sends an empty value once s1's event has
\* been received; the handlers then run as interleaving tasks
NextOrder ==
  \/ \E s \in {"s1", "s2", "s3"} : Connect(s)
  \/ task["s3"].out = "none" /\ JoinFormBegin("s3", "A")
  \/ \E s \in Sessions : JoinFormRoom(s)
  \/ \E s \in Sessions : JoinFormLocks(s)
  \/ \E s \in Sessions : JoinFormResponse(s)
  \/ /\ ~FirstReceived
     /\ task["s2"].pc = "idle" /\ task["s2"].out = "none"
     /\ FieldUpdateBegin("s1", "A", "name", PaddedBob)
  \/ /\ FirstReceived
     /\ task["s2"].out = "none"
     /\ FieldUpdateBegin("s2", "A", "name", Blank)
  \/ \E s \in Sessions : FieldUpdateLock(s)
  \/ \E s \in Sessions : FieldUpdateContribution(s)
  \/ \E s \in Sessions : FieldUpdateResponse(s)
  \/ \E s \in Sessions : FieldUpdateCreate(s)
  \/ \E s \in Sessions : FieldUpdatePersist(s)

SpecOrder == Init /\ [][NextOrder]_vars

\* two groups of one form: sessions lock a field in the first or the second
\* group, update it in the second group and join the second group
NextGroups ==
  \/ \E s \in {"s1", "s2"} : Connect(s)
  \/ \E s \in Sessions : \E code \in {"A", "B"} : LockFieldBegin(s, code, "name")
  \/ \E s \in Sessions : LockFieldCheck(s)
  \/ \E s \in Sessions : LockFieldUpsert(s)
  \/ \E s \in Sessions : \E value \in {Ada, Blank} : FieldUpdateBegin(s, "B", "name", value)
  \/ \E s \in Sessions : FieldUpdateLock(s)
  \/ \E s \in Sessions : FieldUpdateContribution(s)
  \/ \E s \in Sessions : FieldUpdateResponse(s)
  \/ \E s \in Sessions : FieldUpdateCreate(s)
  \/ \E s \in Sessions : FieldUpdatePersist(s)
  \/ \E s \in Sessions : JoinFormBegin(s, "B")
  \/ \E s \in Sessions : JoinFormRoom(s)
  \/ \E s \in Sessions : JoinFormLocks(s)
  \/ \E s \in Sessions : JoinFormResponse(s)

SpecGroups == Init /\ [][NextGroups]_vars

\* the credentials a session may present: none, a forged or expired token,
\* a valid token of a user that no longer exists, or its user's valid token
Credentials(s) ==
  { NoToken, Token("bad", UserOf(s)), Token("ok", "u9"), Token("ok", UserOf(s)) }

\* connections with good and bad credentials: each session presents one
\* credential and then sends every kind of event to the first group
NextAuth ==
  \/ \E s \in {"s1", "s2"} : \E token \in Credentials(s) : Handshake(s, token)
  \/ \E s \in Sessions : JoinFormBegin(s, "A")
  \/ \E s \in Sessions : JoinFormRoom(s)
  \/ \E s \in Sessions : JoinFormLocks(s)
  \/ \E s \in Sessions : JoinFormResponse(s)
  \/ \E s \in Sessions : LockFieldBegin(s, "A", "name")
  \/ \E s \in Sessions : LockFieldCheck(s)
  \/ \E s \in Sessions : LockFieldUpsert(s)
  \/ \E s \in Sessions : UnlockFieldBegin(s, "A", "name")
  \/ \E s \in Sessions : UnlockFieldDelete(s)
  \/ \E s \in Sessions : FieldUpdateBegin(s, "A", "name", Ada)
  \/ \E s \in Sessions : FieldUpdateLock(s)
  \/ \E s \in Sessions : FieldUpdateContribution(s)
  \/ \E s \in Sessions : FieldUpdateResponse(s)
  \/ \E s \in Sessions : FieldUpdateCreate(s)
  \/ \E s \in Sessions : FieldUpdatePersist(s)
  \/ \E s \in Sessions : FormSubmitBegin(s, "A", Submission(EmailOf(UserOf(s)), "r1", Ada))
  \/ \E s \in Sessions : FormSubmitEmit(s)
  \/ \E s \in Sessions : FormReset(s, "A", EmailOf(UserOf(s)))

SpecAuth == Init /\ [][NextAuth]_vars

\* one user on two devices: s1 and s4 are sockets of the same user, s2 of
\* another; each joins the first group as its first event or not at all,
\* locks a field of it, and leaves
NextDevices ==
  \/ \E s \in {"s1", "s2", "s4"} : Connect(s)
  \/ \E s \in Sessions : task[s].out = "none" /\ JoinFormBegin(s, "A")
  \/ \E s \in Sessions : JoinFormRoom(s)
  \/ \E s \in Sessions : JoinFormLocks(s)
  \/ \E s \in Sessions : JoinFormResponse(s)
  \/ \E s \in Sessions : LockFieldBegin(s, "A", "name")
  \/ \E s \in Sessions : LockFieldCheck(s)
  \/ \E s \in Sessions : LockFieldUpsert(s)
  \/ \E s \in Sessions : Disconnect(s)
  \/ \E s \in Sessions : DisconnectCleanup(s)

SpecDevices == Init /\ [][NextDevices]_vars

\* what a client submits: the field values of its form
FormData(value) == { << "name", value >> }

\* a group is submitted and goes on: sessions join the first group, update
\* a field, submit the form over HTTP, announce a submission with a response
\* id of their choosing, and reset
NextSubmit ==
  \/ \E s \in {"s1", "s2"} : Connect(s)
  \/ \E s \in Sessions : task[s].out = "none" /\ JoinFormBegin(s, "A")
  \/ \E s \in Sessions : JoinFormRoom(s)
  \/ \E s \in Sessions : JoinFormLocks(s)
  \/ \E s \in Sessions : JoinFormResponse(s)
  \/ \E s \in Sessions : FieldUpdateBegin(s, "A", "name", PaddedBob)
  \/ \E s \in Sessions : FieldUpdateLock(s)
  \/ \E s \in Sessions : FieldUpdateContribution(s)
  \/ \E s \in Sessions : FieldUpdateResponse(s)
  \/ \E s \in Sessions : FieldUpdateCreate(s)
  \/ \E s \in Sessions : FieldUpdatePersist(s)
  \/ \E s \in Sessions : SubmitFormBegin(s, "A", FormData(Ada))
  \/ \E s \in Sessions : SubmitFormInsert(s)
  \/ \E s \in Sessions : SubmitFormFields(s)
  \/ \E s \in Sessions : \E rid \in 1..MaxResponses :
       FormSubmitBegin(s, "A", Submission(EmailOf(UserOf(s)), rid, Ada))
  \/ \E s \in Sessions : FormSubmitEmit(s)
  \/ \E s \in Sessions : FormReset(s, "A", EmailOf(UserOf(s)))

SpecSubmit == Init /\ [][NextSubmit]_vars

\* the share code / field pairs sent as field-update when references are
\* exercised: a good one, a code that does not exist, an inactive code, an
\* active code of an inactive form, and a field of another form
ReferenceInputs ==
  { << "A", "name" >>, << "Z", "name" >>, << "D", "name" >>, << "C", "note" >>,
    << "A", "note" >> }

\* field updates with good and bad references in a room whose field is
\* being locked
NextReject ==
  \/ \E s \in {"s1", "s2"} : Connect(s)
  \/ \E s \in Sessions : task[s].out = "none" /\ JoinFormBegin(s, "A")
  \/ \E s \in Sessions : JoinFormRoom(s)
  \/ \E s \in Sessions : JoinFormLocks(s)
  \/ \E s \in Sessions : JoinFormResponse(s)
  \/ \E s \in Sessions : \E in \in ReferenceInputs : FieldUpdateBegin(s, in[1], in[2], Ada)
  \/ \E s \in Sessions : FieldUpdateLock(s)
  \/ \E s \in Sessions : FieldUpdateContribution(s)
  \/ \E s \in Sessions : FieldUpdateResponse(s)
  \/ \E s \in Sessions : FieldUpdateCreate(s)
  \/ \E s \in Sessions : FieldUpdatePersist(s)
  \/ \E s \in Sessions : LockFieldBegin(s, "A", "name")
  \/ \E s \in Sessions : LockFieldCheck(s)
  \/ \E s \in Sessions : LockFieldUpsert(s)

SpecReject == Init /\ [][NextReject]_vars

\* the stages of a field-update after the lock check has let it through
PastLockCheck == { "fu_contrib", "fu_resp", "fu_create", "fu_persist" }

\* sessions that leave in the middle of an update: a socket closes only
\* while a field-update of its own is past the lock check
NextLeave ==
  \/ \E s \in {"s1", "s2", "s3"} : Connect(s)
  \/ \E s \in Sessions : task[s].out = "none" /\ JoinFormBegin(s, "A")
  \/ \E s \in Sessions : JoinFormRoom(s)
  \/ \E s \in Sessions : JoinFormLocks(s)
  \/ \E s \in Sessions : JoinFormResponse(s)
  \/ \E s \in {"s1", "s2"} : \E value \in {PaddedBob, Blank} :
       FieldUpdateBegin(s, "A", "name", value)
  \/ \E s \in Sessions : FieldUpdateLock(s)
  \/ \E s \in Sessions : FieldUpdateContribution(s)
  \/ \E s \in Sessions : FieldUpdateResponse(s)
  \/ \E s \in Sessions : FieldUpdateCreate(s)
  \/ \E s \in Sessions : FieldUpdatePersist(s)
  \/ \E s \in Sessions : task[s].pc \in PastLockCheck /\ Disconnect(s)
  \/ \E s \in Sessions : DisconnectCleanup(s)

SpecLeave == Init /\ [][NextLeave]_vars

\* ------------------------------------------------------------------------
\* Properties
\* ------------------------------------------------------------------------
\* the form a share code resolves to in lock-field, as a set of form ids
LockFormOf(code) == { fm.id : fm \in ActiveFormByCode(code) }

\* the live lock records of field fld in the group of share code `code`
LiveLocksOf(code, fld) ==
  { l \in field_locks : l.form_id \in LockFormOf(code) /\ l.field_id = fld /\ Live(l) }

\* (code, fld) has a live lock held by a user other than u
HeldByOther(u, code, fld) == \E l \in LiveLocksOf(code, fld) : l.user_id # u

\* the events of a list that are of kind ev
EventsOf(list, ev) == { i \in 1..Len(list) : list[i].ev = ev }

\* C1: in every reachable state, every group and field has at most one
\* non-expired lock record, whatever interleaving of lock-field,
\* unlock-field, field-update, disconnect and sweep produced the state
C1_AtMostOneLiveLock ==
  \A sc \in SharingCodes : \A ff \in FormFields :
    Cardinality(LiveLocksOf(sc.share_code, ff.id)) <= 1

\* C1 witness: two sessions' lock-field both ended with field-locked on the
\* same field and a live lock is recorded for it
C1_Witness ==
  /\ \E s, t \in Sessions : s # t /\ task[s].out = "lf_locked" /\ task[t].out = "lf_locked"
  /\ LiveLocksOf("A", "name") # {}

\* C2: when several sessions of distinct users send lock-field for the same
\* unlocked field and all their handlers have finished, exactly one of them
\* got field-locked and every other one got lock-failed
C2_ExactlyOneWinner ==
  (\A s \in {"s1", "s2", "s3"} : task[s].pc = "idle" /\ task[s].out # "none")
    => /\ Cardinality({ s \in {"s1", "s2", "s3"} : task[s].out = "lf_locked" }) = 1
       /\ \A s \in {"s1", "s2", "s3"} : task[s].out \in {"lf_locked", "lf_failed"}

\* C3: no preemption: while a lock on a field is live, no step hands the
\* field's lock record to a different user
C3_NoPreemption ==
  [][ \A l \in field_locks : Live(l) =>
        \A k \in field_locks' :
          (k.form_id = l.form_id /\ k.field_id = l.field_id) => k.user_id = l.user_id ]_vars

\* C4: when events are handled one after the other and a field-update reaches
\* its lock check while another user holds the live lock of the field, the
\* update is rejected: the handler ends there, nothing is broadcast and the
\* draft is unchanged
C4_UpdateRejectedWhenLocked ==
  [][ \A s \in Sessions :
        (task[s].pc = "fu_lock" /\ task'[s] # task[s]
           /\ HeldByOther(UserOf(s), task[s].code, task[s].fld))
        => /\ task'[s].pc = "idle"
           /\ EventsOf(emitted', "field-updated") = {}
           /\ response_fields' = response_fields ]_vars

\* C5: a field-update that meets another user's live lock at its lock check
\* is answered with exactly one event, a lock-failed sent to the sender alone
C5_LockFailedNotError ==
  [][ \A s \in Sessions :
        (task[s].pc = "fu_lock" /\ task'[s] # task[s]
           /\ HeldByOther(UserOf(s), task[s].code, task[s].fld))
        => /\ Len(emitted') = 1
           /\ emitted'[1].ev = "lock-failed"
           /\ emitted'[1].to = {s} ]_vars

\* C6: under interleaving, no field-updated is broadcast and no draft value
\* is written for a field-update of user U while another user holds the live
\* lock of the field
C6_LockHeldWhenUpdateTakesEffect ==
  [][ /\ \A i \in EventsOf(emitted', "field-updated") :
           ~HeldByOther(UserOf(emitted'[i].by), emitted'[i].code, emitted'[i].fld)
      /\ \A s \in Sessions :
           (task[s].pc = "fu_persist" /\ task'[s] # task[s])
             => ~HeldByOther(UserOf(s), task[s].code, task[s].fld) ]_vars

\* C7: every accepted field-update is broadcast once, as a field-updated
\* carrying the trimmed value, to every other open socket of the room and
\* not to the sender
C7_UpdateReachesOthersOnly ==
  [][ \A s \in Sessions :
        (task[s].pc \in {"fu_lock", "fu_contrib"} /\ task'[s].pc = "fu_resp")
        => /\ Len(emitted') = 1
           /\ emitted'[1].ev = "field-updated"
           /\ emitted'[1].to = (RoomMembers(task[s].code) \cap Connected) \ {s}
           /\ emitted'[1].fld = task[s].fld
           /\ emitted'[1].val = task[s].val
           /\ Trim(task[s].val) = task[s].val ]_vars

\* C7 witness: a field-updated carrying a trimmed value was sent by a member
\* of the room and reached another member, while a connected session outside
\* the room got nothing
C7_Witness ==
  \E i \in EventsOf(emitted, "field-updated") :
    /\ emitted[i].by \in RoomMembers(emitted[i].code)
    /\ emitted[i].to # {}
    /\ Connected \ RoomMembers(emitted[i].code) # {}
    /\ emitted[i].val = << "B", "o", "b" >>

\* field / value pairs whose trimmed value is not of the field's kind
InvalidInputs ==
  { << "email", BadEmail >>, << "email", PaddedBob >>, << "email", << "a", "@", "b" >> >>,
    << "age", Ada >>, << "age", << "1", ".", "2", ".", "3" >> >> }

\* C8: a field-update whose non-empty trimmed value fails the type validation
\* of its field is rejected: the sender gets an error, nothing is broadcast,
\* and draft, contributions and locks are unchanged
C8_InvalidValueRejected ==
  [][ \A s \in Sessions : \A in \in InvalidInputs :
        FieldUpdateBegin(s, "A", in[1], in[2])
        => /\ task'[s].pc = "idle"
           /\ Len(emitted') = 1
           /\ emitted'[1].ev = "error"
           /\ emitted'[1].to = {s}
           /\ response_fields' = response_fields
           /\ form_responses' = form_responses
           /\ field_contributions' = field_contributions
           /\ field_locks' = field_locks ]_vars

\* C8 witness: a field-update was answered with the invalid-value error
C8_Witness ==
  \E s \in Sessions :
    /\ task[s].out = "fu_error"
    /\ Len(emitted) = 1
    /\ emitted[1].ev = "error"
    /\ emitted[1].fld = "email"
    /\ emitted[1].who = "Invalid value"

\* C9: a form-submit of an existing group sends one form-submitted-all, with
\* the payload as submitted, to every open socket of the room, the
\* submitter's included
C9_SubmitReachesWholeRoom ==
  [][ \A s \in Sessions :
        (task[s].pc = "fs_emit" /\ task'[s] # task[s]
           /\ SharingCodeByCode(task[s].code) # {})
        => /\ Len(emitted') = 1
           /\ emitted'[1].ev = "form-submitted-all"
           /\ emitted'[1].to = RoomMembers(task[s].code) \cap Connected
           /\ emitted'[1].val = task[s].val ]_vars

\* C9 witness: a form-submitted-all reached its submitter and another member
C9_Witness ==
  \E i \in EventsOf(emitted, "form-submitted-all") :
    /\ emitted[i].by \in emitted[i].to
    /\ Cardinality(emitted[i].to) >= 2

\* C10: for a form-reset, every open socket of the room, the resetter's
\* included, receives exactly one form-reset-all
C10_ResetOncePerMember ==
  \A i \in EventsOf(emitted, "form-reset-all") :
    \A s \in RoomMembers(emitted[i].code) \cap Connected :
      Cardinality({ j \in EventsOf(emitted, "form-reset-all") : s \in emitted[j].to }) = 1

\* C11: when the lock cleanup of a disconnected session has been applied, the
\* lock table holds no lock of that session's user, for any field of any room
C11_DisconnectReleasesLocks ==
  [][ \A s \in Sessions :
        (cleanup[s] = "pending" /\ cleanup'[s] = "done")
        => \A l \in field_locks' : l.user_id # UserOf(s) ]_vars

\* C11 witness: a session took the lock of a field, disconnected, and its
\* cleanup emptied the lock table before any lease could run out
C11_Witness ==
  \E s \in Sessions :
    /\ cleanup[s] = "done"
    /\ task[s].out = "lf_locked"
    /\ \A t \in Sessions \ {s} : task[t].out = "none" /\ task[t].pc = "idle"
    /\ field_locks = {}
    /\ now = 0

\* C12: when a session that had joined a room disconnects, every remaining
\* member of the room receives a user-left for it and, after that, an
\* active-users roster in which the session is no longer counted
C12_LeaveAnnounced ==
  [][ \A s \in Sessions :
        (status[s] = "connected" /\ status'[s] = "closed")
        => \A code \in rooms[s] :
             LET remaining == (RoomMembers(code) \cap Connected) \ {s} IN
             \A m \in remaining :
               \E i, j \in 1..Len(emitted') :
                 /\ i < j
                 /\ emitted'[i].ev = "user-left" /\ emitted'[i].code = code
                 /\ emitted'[i].who = UserOf(s) /\ m \in emitted'[i].to
                 /\ emitted'[j].ev = "active-users" /\ emitted'[j].code = code
                 /\ m \in emitted'[j].to
                 /\ emitted'[j].val = getActiveUsersInRoom(remaining) ]_vars

\* C13: a lock that was never refreshed and whose lease has run out is
\* reclaimed by the sweep that finds it: the sweep announces field-unlocked
\* for the lock's field to the room of the lock's group before it deletes it
C13_ExpiredLockAnnounced ==
  [][ (sweep.pc = "codes" /\ sweep'.pc = "delete")
      => \A l \in field_locks :
           (Expired(l) /\ [field_id |-> l.field_id,
                           sharing_code_id |-> l.sharing_code_id] \in sweep.expired)
           => \E i \in EventsOf(emitted', "field-unlocked") :
                /\ emitted'[i].fld = l.field_id
                /\ l.form_id \in LockFormOf(emitted'[i].code)
                /\ emitted'[i].to = IoTo(emitted'[i].code) ]_vars

\* C14: a sweep announces exactly the locks it removes: the locks its
\* deletion takes out of the table are the locks it sent field-unlocked for,
\* none removed unannounced and none announced that is still there
C14_SweepNotifiesWhatItRemoves ==
  [][ (sweep.pc = "delete" /\ sweep'.pc = "idle")
      => { [field_id |-> l.field_id, sharing_code_id |-> l.sharing_code_id] :
             l \in field_locks \ field_locks' } = SweepAnnounced ]_vars

\* the live locks of the field of s's lock-field that s's user holds
OwnLiveLock(s) ==
  { l \in LiveLocksOf(task[s].code, task[s].fld) : l.user_id = UserOf(s) }

\* C15: a lock-field by the user who holds the live lock of the field passes
\* the check and succeeds: the room is told field-locked, the lock keeps its
\* holder and gets the new expiry, and no other lock, no draft value, no
\* contribution and no room membership changes
C15_ReacquireIdempotent ==
  [][ \A s \in Sessions :
        /\ (task[s].pc = "lf_check" /\ task'[s] # task[s] /\ OwnLiveLock(s) # {})
             => /\ task'[s].pc = "lf_upsert"
                /\ emitted' = << >>
                /\ field_locks' = field_locks
        /\ (task[s].pc = "lf_upsert" /\ task'[s] # task[s] /\ OwnLiveLock(s) # {})
             => /\ field_locks' = { IF l \in OwnLiveLock(s)
                                      THEN [l EXCEPT !.expires_at = task[s].exp]
                                      ELSE l : l \in field_locks }
                /\ task'[s].out = "lf_locked"
                /\ Len(emitted') = 1
                /\ emitted'[1].ev = "field-locked"
                /\ emitted'[1].fld = task[s].fld
                /\ emitted'[1].who = UserOf(s)
                /\ UNCHANGED << rooms, form_responses, response_fields,
                                field_contributions >> ]_vars

\* C15 witness: one session alone sent two lock-field requests that both
\* succeeded, the table holds the single lock of the field, and its expiry is
\* the one of the second request
C15_Witness ==
  /\ status = [s \in Sessions |-> IF s = "s1" THEN "connected" ELSE "new"]
  /\ ops = 2
  /\ task["s1"].pc = "idle" /\ task["s1"].out = "lf_locked"
  /\ now = SweepIntervalMs
  /\ field_locks = { [user_id |-> "u1", form_id |-> "f1", field_id |-> "name",
                       sharing_code_id |-> NULL, expires_at |-> now + LeaseMs] }

\* C16: an unlock-field by a user who does not hold the lock of the field
\* leaves the lock table as it is: every lock keeps its holder and expiry
C16_UnlockByNonHolderNoOp ==
  [][ \A s \in Sessions :
        (task[s].pc = "ul_delete" /\ task'[s] # task[s]
           /\ \A l \in field_locks :
                (l.form_id \in LockFormOf(task[s].code) /\ l.field_id = task[s].fld)
                  => l.user_id # UserOf(s))
        => field_locks' = field_locks ]_vars

\* C16 witness: the last step was the deletion of an unlock-field sent by a
\* session whose user does not hold the field's lock, and the holder's live
\* lock is in the table
C16_Witness ==
  \E s \in Sessions :
    /\ task[s].out = "ul_done"
    /\ Len(emitted) = 1 /\ emitted[1].ev = "field-unlocked" /\ emitted[1].by = s
    /\ \E l \in LiveLocksOf("A", "name") : l.user_id # UserOf(s)
    /\ \E t \in Sessions \ {s} : task[t].pc = "idle" /\ task[t].out = "lf_locked"

\* a field-update for (code, fld) is being handled
UpdateInFlight(code, fld) ==
  \E s \in Sessions :
    /\ task[s].pc \in {"fu_lock", "fu_contrib", "fu_resp", "fu_create", "fu_persist"}
    /\ task[s].code = code /\ task[s].fld = fld

\* the values recorded for fld in the current draft of the group of `code`
DraftValues(code, fld) ==
  { r.value : r \in { q \in response_fields :
        /\ q.field_id = fld
        /\ \E sc \in SharingCodeByCode(code) :
             \E d \in Latest(ResponsesOf(sc.form_id, sc.id)) : q.response_id = d.id } }

\* C17: last write wins by acceptance order: whenever no field-update of a
\* group's field is in flight, the value the group's draft holds for the field
\* is the value of the last field-updated that was broadcast for it
C17_LastWriteWins ==
  \A r \in lastUpdated :
    ~UpdateInFlight(r.code, r.fld) => DraftValues(r.code, r.fld) = { r.val }

\* C18: a group has one draft response: however the first field-updates of
\* a group interleave, a single form_responses row is created for it, so
\* that every value written goes into the same draft
C18_OneDraftPerGroup ==
  \A sc \in SharingCodes : Cardinality(ResponsesOf(sc.form_id, sc.id)) <= 1

\* C19: round trip through the draft: when the join-form of an open socket
\* reads the group's draft while no field-update of a field is in flight, the
\* form-data-sync it sends to the joiner carries, for that field, the value of the last
\* field-update that was accepted for it
C19_JoinSeesLastAccepted ==
  [][ \A s \in Sessions :
        (task[s].pc = "jf_resp" /\ task'[s] # task[s] /\ status[s] = "connected")
        => \A r \in lastUpdated :
             (r.code = task[s].code /\ ~UpdateInFlight(r.code, r.fld))
             => \E i \in EventsOf(emitted', "form-data-sync") :
                  /\ s \in emitted'[i].to
                  /\ { e[2] : e \in { d \in emitted'[i].val : d[1] = r.fld } } = { r.val } ]_vars

\* the share codes that are active and belong to an active form
JoinableCodes ==
  { sc.share_code : sc \in { c \in SharingCodes :
        c.is_active /\ \E fm \in Forms : fm.id = c.form_id /\ fm.is_active } }

\* C20: a join-form for a code that does not exist, is inactive, or belongs
\* to an inactive form fails: the handler ends there, the session is in the
\* same rooms as before, the only event is an error sent to the session, and
\* nobody gets user-joined or active-users
C20_BadJoinRejected ==
  [][ \A s \in Sessions :
        (task[s].pc = "jf_room" /\ task'[s] # task[s] /\ task[s].code \notin JoinableCodes)
        => /\ task'[s].pc = "idle"
           /\ rooms' = rooms
           /\ Len(emitted') = 1
           /\ emitted'[1].ev = "error"
           /\ emitted'[1].to = ToSelf(s)
           /\ EventsOf(emitted', "user-joined") = {}
           /\ EventsOf(emitted', "active-users") = {} ]_vars

\* C20 witness: a session's join-form for the code of an inactive form was
\* answered with an error to that session, which is in no room, while the
\* first group's room has a member
C20_Witness ==
  \E s \in Sessions :
    /\ task[s].out = "jf_error"
    /\ Len(emitted) = 1 /\ emitted[1].ev = "error" /\ emitted[1].code = "C"
    /\ emitted[1].to = {s}
    /\ rooms[s] = {}
    /\ RoomMembers("A") # {}

\* the live locks of the group of `code`, as field / holder pairs
LockSnapshot(code) ==
  { << l.field_id, l.user_id >> :
      l \in { k \in field_locks : k.form_id \in LockFormOf(code) /\ Live(k) } }

\* the field / value pairs of the current draft of the group of `code`
DraftSnapshot(code) ==
  { << q.field_id, q.value >> :
      q \in { r \in response_fields :
                \E sc \in SharingCodeByCode(code) :
                  \E d \in Latest(ResponsesOf(sc.form_id, sc.id)) : r.response_id = d.id } }

\* C21: every successful join-form of an open socket sends the joiner alone
\* one current-locks equal to the group's live locks and one form-data-sync
\* equal to the group's current draft, also when the lock set or the draft is
\* empty
C21_JoinSendsSnapshots ==
  [][ \A s \in Sessions :
        /\ (task[s].pc = "jf_locks" /\ task'[s] # task[s] /\ status[s] = "connected")
             => /\ Len(emitted') = 1
                /\ emitted'[1].ev = "current-locks"
                /\ emitted'[1].to = {s}
                /\ emitted'[1].val = LockSnapshot(task[s].code)
        /\ (task[s].pc = "jf_resp" /\ task'[s] # task[s] /\ status[s] = "connected")
             => /\ Len(emitted') = 1
                /\ emitted'[1].ev = "form-data-sync"
                /\ emitted'[1].to = {s}
                /\ emitted'[1].val = DraftSnapshot(task[s].code) ]_vars

\* the open sockets of the room of `code` after the step
IoToAfter(code) == { s \in Sessions : code \in rooms'[s] /\ status'[s] = "connected" }

\* C22: whenever a step changes the set of open sockets of a room, the step
\* sends an active-users roster to every remaining member, and the roster
\* lists exactly the users of the sockets that are in the room after the step
C22_RosterFollowsMembership ==
  [][ \A sc \in SharingCodes :
        (IoToAfter(sc.share_code) # IoTo(sc.share_code) /\ IoToAfter(sc.share_code) # {})
        => \E i \in EventsOf(emitted', "active-users") :
             /\ emitted'[i].code = sc.share_code
             /\ emitted'[i].to = IoToAfter(sc.share_code)
             /\ { u \in DOMAIN emitted'[i].val : emitted'[i].val[u] > 0 }
                  = { UserOf(s) : s \in IoToAfter(sc.share_code) } ]_vars

\* C23: when the write of a field-update's value into the draft fails, the
\* acting session is sent an error and no field-updated carrying that value
\* has been broadcast for the field
C23_UnsavedUpdateNotBroadcast ==
  [][ \A s \in Sessions :
        (task[s].pc = "fu_persist" /\ task'[s].out = "fu_unsaved")
        => /\ \E i \in EventsOf(emitted', "error") : emitted'[i].to = ToSelf(s)
           /\ \A r \in lastUpdated :
                ~(r.code = task[s].code /\ r.fld = task[s].fld /\ r.val = task[s].val) ]_vars

\* C24: updates of one field are delivered in the order the server received
\* them and one by one: every broadcasting step sends a single field-updated
\* to the other open sockets of the room, and the update received second is
\* not broadcast while the one received first still waits to be broadcast
C24_DeliveredInArrivalOrder ==
  [][ \A i \in EventsOf(emitted', "field-updated") :
        /\ Len(emitted') = 1
        /\ emitted'[i].to = SocketTo(emitted'[i].by, emitted'[i].code)
        /\ emitted'[i].by = "s2" => task["s1"].pc \notin {"fu_lock", "fu_contrib"} ]_vars

\* C25: lock state is per group: a field-update or a lock-field on a field
\* whose own group has no live lock of another user is not turned down
\* because of a lock of a different group, a join's current-locks lists only
\* live locks of the joined group, and the upsert of a lock-field leaves the
\* locks of every other group and field as they are
C25_LocksArePerGroup ==
  [][ \A s \in Sessions :
        /\ (task[s].pc = "fu_lock" /\ task'[s] # task[s]
              /\ ~HeldByOther(UserOf(s), task[s].code, task[s].fld))
             => task'[s].pc # "idle"
        /\ (task[s].pc = "lf_check" /\ task'[s] # task[s]
              /\ ~HeldByOther(UserOf(s), task[s].code, task[s].fld))
             => task'[s].pc = "lf_upsert"
        /\ EventsOf(emitted', "lock-failed") # {}
             => \E t \in Sessions : task[t].pc = "lf_check" /\ task'[t] # task[t]
                   /\ HeldByOther(UserOf(t), task[t].code, task[t].fld)
        /\ (task[s].pc = "jf_locks" /\ task'[s] # task[s])
             => \A i \in EventsOf(emitted', "current-locks") :
                  emitted'[i].val \subseteq LockSnapshot(task[s].code)
        /\ (task[s].pc = "lf_upsert" /\ task'[s] # task[s])
             => \A l \in field_locks :
                  ~(l.form_id \in LockFormOf(task[s].code) /\ l.field_id = task[s].fld)
                    => l \in field_locks' ]_vars

\* C25 witness: the last step accepted and broadcast a field-update of a
\* field in the second group while another user holds the live lock of the
\* same field in the first group
C25_Witness ==
  \E i \in EventsOf(emitted, "field-updated") :
    /\ emitted[i].code = "B"
    /\ task[emitted[i].by].pc = "fu_resp"
    /\ HeldByOther(UserOf(emitted[i].by), "A", emitted[i].fld)

\* the credentials that are missing, do not verify, or name no user
BadCredentials(s) ==
  { token \in Credentials(s) :
      \/ ~token.present
      \/ token.sig # "ok"
      \/ token.userId \notin { u.id : u \in Users } }

\* C26: a connection whose credential is missing, invalid or resolves to no
\* user is refused at the handshake; a refused session stays refused, joins
\* no room and has no event processed; every step of every handler belongs to
\* a session that passed the handshake and has a user with an e-mail
C26_RefusedAtHandshake ==
  [][ \A s \in Sessions :
        /\ \A token \in BadCredentials(s) :
             Handshake(s, token) => status'[s] \in Refusals
        /\ status[s] \in Refusals
             => /\ status'[s] = status[s]
                /\ task'[s] = Fresh
                /\ rooms'[s] = {}
                /\ \A i \in 1..Len(emitted') : emitted'[i].by # s
        /\ task'[s] # task[s]
             => /\ status[s] \in {"connected", "closed"}
                /\ \E u \in Users : u.id = UserOf(s) /\ u.email = EmailOf(UserOf(s)) ]_vars

\* C26 witness: one connection was refused because its token names no user
\* while another, accepted, has had an event processed
C26_Witness ==
  \E s, t \in Sessions :
    /\ status[s] = "User not found"
    /\ status[t] = "connected"
    /\ task[t].out # "none"

\* the locks recorded for field fld in the group of `code`, by form or by
\* sharing code
LocksOn(locks, code, fld) ==
  { l \in locks :
      /\ l.field_id = fld
      /\ \/ l.form_id \in LockFormOf(code)
         \/ \E sc \in SharingCodeByCode(code) : l.sharing_code_id = sc.id }

\* C27: when an accepted field-update finishes on a field that has no live
\* lock, the field then has a lock held by the updating user with a lease of
\* 60 seconds
C27_FirstEditLocks ==
  [][ \A s \in Sessions :
        (task[s].pc = "fu_persist" /\ task'[s].out = "fu_done"
           /\ \A l \in LocksOn(field_locks, task[s].code, task[s].fld) : ~Live(l))
        => \E l \in LocksOn(field_locks', task[s].code, task[s].fld) :
             l.user_id = UserOf(s) /\ l.expires_at = now + LeaseMs ]_vars

\* C28: when an accepted field-update of the user who holds the field's live
\* lock finishes, that lock has the same holder and expires 60 seconds from
\* now; when the updating user holds no lock on the field, no lock changes
C28_HolderEditRefreshes ==
  [][ \A s \in Sessions :
        (task[s].pc = "fu_persist" /\ task'[s].out = "fu_done")
        => IF OwnLiveLock(s) # {}
           THEN field_locks' = { IF l \in OwnLiveLock(s)
                                 THEN [l EXCEPT !.expires_at = now + LeaseMs]
                                 ELSE l : l \in field_locks }
           ELSE field_locks' = field_locks ]_vars

\* the lock records of s's field that are held by another user and whose
\* lease has run out, while no live lock of another user is on the field
StaleLockOfOther(s) ==
  IF HeldByOther(UserOf(s), task[s].code, task[s].fld) THEN {}
  ELSE { l \in field_locks : /\ l.form_id \in LockFormOf(task[s].code)
                             /\ l.field_id = task[s].fld
                             /\ l.user_id # UserOf(s)
                             /\ ~Live(l) }

\* C29: a lock whose lease has run out and that is still in the table blocks
\* nobody: a lock-field of another user passes the check with a lease of 60
\* seconds from now, its upsert makes that user the holder of the field's
\* single lock record and the room is told field-locked, and a field-update
\* of another user passes the lock check
C29_StaleLockDoesNotBlock ==
  [][ \A s \in Sessions :
        /\ (task[s].pc = "lf_check" /\ task'[s] # task[s] /\ StaleLockOfOther(s) # {})
             => /\ task'[s].pc = "lf_upsert"
                /\ task'[s].exp = now + LeaseMs
        /\ (task[s].pc = "lf_upsert" /\ task'[s] # task[s] /\ StaleLockOfOther(s) # {})
             => /\ task'[s].out = "lf_locked"
                /\ { l \in field_locks' : /\ l.form_id \in LockFormOf(task[s].code)
                                          /\ l.field_id = task[s].fld }
                     = { [l EXCEPT !.user_id = UserOf(s), !.expires_at = task[s].exp] :
                           l \in StaleLockOfOther(s) }
                /\ \E i \in EventsOf(emitted', "field-locked") : emitted'[i].who = UserOf(s)
        /\ (task[s].pc = "fu_lock" /\ task'[s] # task[s] /\ StaleLockOfOther(s) # {})
             => task'[s].pc # "idle" ]_vars

\* C29 witness: with handlers run one after the other, the last step was the
\* upsert of a lock-field that, two sweep intervals or more after the start,
\* made its user the holder of a field another session had locked before
C29_Witness ==
  \E s, t \in Sessions :
    /\ UserOf(s) # UserOf(t)
    /\ task[t].pc = "idle" /\ task[t].out = "lf_locked"
    /\ task[s].out = "lf_locked"
    /\ Len(emitted) = 1 /\ emitted[1].ev = "field-locked" /\ emitted[1].by = s
    /\ now >= LeaseMs
    /\ field_locks = { [user_id |-> UserOf(s), form_id |-> "f1", field_id |-> "name",
                        sharing_code_id |-> NULL, expires_at |-> now + LeaseMs] }

\* C30: an unlock-field tells the room field-unlocked only when its deletion
\* took a lock out of the table
C30_UnlockedOnlyWhenRemoved ==
  [][ \A s \in Sessions :
        (task[s].pc = "ul_delete" /\ task'[s] # task[s]
           /\ EventsOf(emitted', "field-unlocked") # {})
        => field_locks' # field_locks ]_vars

\* C31: every active-users roster lists each user's identity at most once,
\* also when a user is in the room through two sockets
C31_RosterByIdentity ==
  \A i \in EventsOf(emitted, "active-users") :
    \A u \in DOMAIN emitted[i].val : emitted[i].val[u] <= 1

\* C32: every form-submitted-all carries the id of a response that
\* submitForm persisted for the same group, and formData equal to that
\* response's field values
C32_SubmittedIsPersisted ==
  \A i \in EventsOf(emitted, "form-submitted-all") :
    \E r \in form_responses :
      /\ r.id = emitted[i].val.responseId
      /\ r.id \in submitted
      /\ r.sharing_code_id \in { sc.id : sc \in SharingCodeByCode(emitted[i].code) }
      /\ FieldsOfResponse(r.id) = emitted[i].val.formData

\* C33: once submitForm has returned a response, no later step changes that
\* response's field values, and a join-form step does not send them to the
\* joiner in form-data-sync
C33_SubmittedResponseIsFinal ==
  [][ /\ \A rid \in submitted :
           { q \in response_fields' : q.response_id = rid }
             = { q \in response_fields : q.response_id = rid }
      /\ \A s \in Sessions :
           (task[s].pc = "jf_resp" /\ task'[s].pc = "idle")
             => \A r \in Latest({ r \in form_responses :
                        r.sharing_code_id
                          \in { sc.id : sc \in ActiveSharingCode(task[s].code) } }) :
                  r.id \in submitted
                    => EventsOf(emitted', "form-data-sync") = {} ]_vars

\* a field-update reference the tables do not back: no active sharing code
\* of that share code, an inactive parent form, or a field of another form
BadReference(code, fld) ==
  \/ ~\E sc \in SharingCodes : sc.share_code = code /\ sc.is_active
  \/ \E sc \in SharingCodes :
       /\ sc.share_code = code /\ sc.is_active
       /\ \/ \E fm \in Forms : fm.id = sc.form_id /\ ~fm.is_active
          \/ ~\E ff \in FormFields : ff.id = fld /\ ff.form_id = sc.form_id

\* C34: a field-update with a bad reference never gets to the lock check;
\* it ends in one error event for its sender alone, and that step changes
\* no draft, contribution, lock or room membership
C34_BadReferenceContained ==
  [][ \A s \in Sessions :
        /\ (task[s].pc = "idle" /\ task'[s].pc = "fu_lock")
             => ~BadReference(task'[s].code, task'[s].fld)
        /\ (/\ task[s].pc = "idle" /\ task'[s] # task[s] /\ task'[s].out = "fu_error"
            /\ \E i \in DOMAIN emitted' :
                 emitted'[i].by = s /\ BadReference(emitted'[i].code, emitted'[i].fld))
             => /\ Len(emitted') = 1
                /\ emitted'[1].ev = "error"
                /\ emitted'[1].to \subseteq {s}
                /\ emitted'[1].who \in { "Share code not found or inactive",
                                         "Form is not active",
                                         "Field not found in this form" }
                /\ field_locks' = field_locks
                /\ form_responses' = form_responses
                /\ response_fields' = response_fields
                /\ field_contributions' = field_contributions
                /\ rooms' = rooms /\ status' = status ]_vars

\* a field of another form is refused while the room has a member, a lock
\* and a draft
C34_Witness ==
  /\ Len(emitted) = 1
  /\ emitted[1].ev = "error"
  /\ emitted[1].who = "Field not found in this form"
  /\ emitted[1].to = { emitted[1].by }
  /\ response_fields # {}
  /\ \E s \in Sessions : rooms[s] # {}

\* C35: a field-update that is past the lock check when its socket has
\* closed is not cancelled: its next stage can always run, it ends only as
\* done, and its last stage writes its value into the group's response
C35_InFlightUpdateCompletes ==
  [][ \A s \in Sessions :
        (status[s] = "closed" /\ task[s].pc \in PastLockCheck)
        => /\ ENABLED (\/ FieldUpdateContribution(s) \/ FieldUpdateResponse(s)
                       \/ FieldUpdateCreate(s) \/ FieldUpdatePersist(s))
           /\ task'[s].pc = "idle"
                => /\ task'[s].out = "fu_done"
                   /\ [response_id |-> task[s].rid, field_id |-> task[s].fld,
                       value |-> task[s].val] \in response_fields'
                   /\ task[s].rid \in { r.id : r \in ResponsesOf(
                          The(ActiveSharingCode(task[s].code)).form_id,
                          The(ActiveSharingCode(task[s].code)).id) } ]_vars

\* a socket that closed in the middle of its update of the name field has
\* had its lock cleanup run, its update is done and the draft holds "Bob"
C35_Witness ==
  \E s \in Sessions :
    /\ status[s] = "closed" /\ cleanup[s] = "done"
    /\ task[s].pc = "idle" /\ task[s].out = "fu_done"
    /\ \E q \in response_fields : q.field_id = "name" /\ q.value = << "B", "o", "b" >>
    /\ \A t \in Sessions \ {s} : task[t].out # "fu_done" /\ task[t].pc = "idle"

\* no lock-field, unlock-field or join handler, disconnect cleanup or sweep
\* is in flight
LocksQuiet ==
  /\ \A s \in Sessions : task[s].pc = "idle" /\ cleanup[s] # "pending"
  /\ sweep.pc = "idle"

\* C36: when nothing is in flight, the locked fields shown by the page of
\* every open session of a room are those of the lock table: every live
\* lock of the room's form is shown, and every field shown has a lock record
C36_LockViewsMatchTable ==
  LocksQuiet =>
    \A s \in Connected : \A code \in rooms[s] :
      /\ \A l \in field_locks :
           (l.form_id \in LockFormOf(code) /\ Live(l)) => l.field_id \in lockedFields[s]
      /\ \A f \in lockedFields[s] :
           \E l \in field_locks : l.form_id \in LockFormOf(code) /\ l.field_id = f

\* C37: an event of a room's collaboration (field-updated,
\* form-submitted-all, form-reset-all) that reaches someone was caused by a
\* member of that room: an open session that caused one is in the room
C37_OnlyMembersAct ==
  \A i \in DOMAIN emitted :
    (/\ emitted[i].ev \in { "field-updated", "form-submitted-all", "form-reset-all" }
     /\ emitted[i].to # {}
     /\ emitted[i].by \in Connected)
      => emitted[i].by \in RoomMembers(emitted[i].code)

\* C38: once a closed session's disconnect cleanup and its handlers have
\* finished, and its user has no other open session, the lock table holds
\* no lock of that user
C38_NoLockOutlivesHolder ==
  \A s \in Sessions :
    (/\ status[s] = "closed" /\ cleanup[s] = "done" /\ task[s].pc = "idle"
     /\ \A t \in Sessions \ {s} : UserOf(t) = UserOf(s) => status[t] = "new")
      => \A l \in field_locks : l.user_id # UserOf(s)

\* C39: when the disconnect cleanup of a session that never sent lock-field
\* runs while another session of the same user is open, the lock table is
\* left as it was: the locks were taken through the other session
C39_CleanupScopedToSession ==
  [][ \A s \in Sessions :
        (/\ cleanup[s] = "pending" /\ cleanup'[s] = "done"
         /\ task[s].pc = "idle" /\ task[s].out \in { "none", "jf_done" }
         /\ \E t \in Sessions \ {s} : UserOf(t) = UserOf(s) /\ status[t] = "connected")
          => field_locks' = field_locks ]_vars

====
